---- MODULE Spec2Model ----
(***************************************************************************)
(* Model of crates/release_plz_core/src/published_packages.rs:             *)
(* PackagesCollection, get_latest_packages, initialize_registry_package    *)
(* and filter_release_tags.                                                *)
(*                                                                         *)
(* Strings that the code inspects character by character (git tags, the    *)
(* rendered tag template) are sequences of one-character strings.          *)
(***************************************************************************)
EXTENDS Integers, Sequences, FiniteSets, TLC

\* ------------------------------------------------------------------ bounds
\* longest tag text drawn for filter_release_tags
MaxTagLen == 6
\* longest tag template (number of literals and placeholders)
MaxTemplateLen == 2

\* ------------------------------------------------------------ text helpers
\* Option<T>: None is the empty sequence, Some(x) the sequence of x alone
None == <<>>
Some(x) == <<x>>
Unwrap(o) == o[1]

\* (?-u:\d): an ASCII digit
Digits == {"0", "1", "2", "3", "4", "5", "6", "7", "8", "9"}

IsDigits(s) == Len(s) > 0 /\ \A i \in 1..Len(s) : s[i] \in Digits

\* s is of the form digits.digits.digits: the whole regex matches exactly s
IsSemver(s) ==
    \E i, j \in 1..Len(s) :
        /\ i < j
        /\ s[i] = "." /\ s[j] = "."
        /\ IsDigits(SubSeq(s, 1, i - 1))
        /\ IsDigits(SubSeq(s, i + 1, j - 1))
        /\ IsDigits(SubSeq(s, j + 1, Len(s)))

\* the start positions at which SEMVER_RE matches in tag
MatchStarts(tag) ==
    {i \in 1..Len(tag) : \E j \in i..Len(tag) : IsSemver(SubSeq(tag, i, j))}

Min(S) == CHOOSE x \in S : \A y \in S : x <= y
Max(S) == CHOOSE x \in S : \A y \in S : x >= y

\* Regex::find: the leftmost match; each \d+ is greedy, so at that start the
\* match is the longest one.  None when the regex matches nowhere.
SemverFind(tag) ==
    IF MatchStarts(tag) = {} THEN None
    ELSE LET i == Min(MatchStarts(tag))
             j == Max({k \in i..Len(tag) : IsSemver(SubSeq(tag, i, k))})
         IN  Some(SubSeq(tag, i, j))

\* package names and the characters they are written with
NameChars(n) ==
    CASE n = "a"  -> <<"a">>
      [] n = "b"  -> <<"b">>
      [] n = "c"  -> <<"c">>
      [] n = "d"  -> <<"d">>
      [] n = "a1" -> <<"a", "1">>

\* Project::git_tag: the tag template is a sequence of literal characters and
\* of the placeholders PKG (package name) and VER (version).
RECURSIVE git_tag(_, _, _)
git_tag(template, package, version) ==
    IF template = <<>> THEN <<>>
    ELSE LET item == Head(template)
             text == CASE item = "PKG" -> NameChars(package)
                       [] item = "VER" -> version
                       [] OTHER        -> <<item>>
         IN  text \o git_tag(Tail(template), package, version)

\* the second filter_map of filter_release_tags: keep tag iff it equals the
\* template rendered with the matched version
TagMatches(tag, version, package, template) ==
    tag = git_tag(template, package, version)

\* filter_release_tags: the tags, in input order, that contain a semver
\* string and equal the template rendered with the FOUND version string
RECURSIVE filter_release_tags(_, _, _)
filter_release_tags(tags, package, template) ==
    IF tags = <<>> THEN <<>>
    ELSE LET tag     == Head(tags)
             version == SemverFind(tag)
             rest    == filter_release_tags(Tail(tags), package, template)
         IN  IF version # None /\ TagMatches(tag, Unwrap(version), package, template)
             THEN <<tag>> \o rest
             ELSE rest

\* ------------------------------------------------------- more bounds
\* most packages in the registry_packages argument
MaxRegistryPkgs == 3
\* most packages in the git_only_packages argument
MaxGitPkgs == 2
\* most tags in the repository
MaxTags == 2

\* ------------------------------------------------------------ collections
\* the elements of seq at the positions in S, in seq's order
RECURSIVE Pick(_, _, _)
Pick(seq, S, i) ==
    IF i > Len(seq) THEN <<>>
    ELSE (IF i \in S THEN <<seq[i]>> ELSE <<>>) \o Pick(seq, S, i + 1)

\* the sub-lists of seq with at most n elements
SubLists(seq, n) ==
    {Pick(seq, S, 1) : S \in {T \in SUBSET (1..Len(seq)) : Cardinality(T) <= n}}

\* String's Ord on the package names used here
NameRank(n) ==
    CASE n = "a"  -> 1
      [] n = "a1" -> 2
      [] n = "b"  -> 3
      [] n = "c"  -> 4
      [] n = "d"  -> 5

\* a slip in the table: an entry under the same key is kept, not replaced
BTreeInsertKeep(m, k, v) ==
    LET n == Cardinality({i \in 1..Len(m) : NameRank(m[i].key) <= NameRank(k)})
    IN  SubSeq(m, 1, n) \o <<[key |-> k, value |-> v]>> \o SubSeq(m, n + 1, Len(m))

\* BTreeMap::insert: the table is a sequence of (key, value) kept sorted by
\* key; an entry under the same key is replaced.
BTreeInsert(m, k, v) ==
    IF \E i \in 1..Len(m) : m[i].key = k
    THEN [i \in 1..Len(m) |-> IF m[i].key = k THEN [key |-> k, value |-> v] ELSE m[i]]
    ELSE LET n == Cardinality({i \in 1..Len(m) : NameRank(m[i].key) < NameRank(k)})
         IN  SubSeq(m, 1, n) \o <<[key |-> k, value |-> v]>> \o SubSeq(m, n + 1, Len(m))

\* BTreeMap::get
BTreeGet(m, k) ==
    IF \E i \in 1..Len(m) : m[i].key = k
    THEN Some((m[CHOOSE i \in 1..Len(m) : m[i].key = k]).value)
    ELSE None

\* PackagesCollection::get_published_package
get_published_package(m, package_name) == BTreeGet(m, package_name)

\* PackagesCollection::get_package
get_package(m, package_name) ==
    IF BTreeGet(m, package_name) = None THEN None
    ELSE Some(Unwrap(BTreeGet(m, package_name)).package)

\* PackagesCollection::push
push(m, published) == BTreeInsert(m, published.package.name, published)

\* a slip in extend: the key is cloned once, from the first package
RECURSIVE extend_stale_key(_, _, _)
extend_stale_key(m, pkgs, k) ==
    IF pkgs = <<>> THEN m
    ELSE extend_stale_key(BTreeInsert(m, k, Head(pkgs)), Tail(pkgs), k)
extend_first_key(m, pkgs) ==
    IF pkgs = <<>> THEN m ELSE extend_stale_key(m, pkgs, Head(pkgs).package.name)

\* PackagesCollection::extend
RECURSIVE extend(_, _)
extend(m, pkgs) ==
    IF pkgs = <<>> THEN m
    ELSE extend(BTreeInsert(m, Head(pkgs).package.name, Head(pkgs)), Tail(pkgs))

\* a slip in temp_dir: a directory is allocated on every call
temp_dir_always_new(held, allocated) == Some(allocated + 1)

\* PackagesCollection::temp_dir: the directory the collection holds afterwards,
\* given the one it holds (or None) and the number of directories allocated
\* so far; a new directory is allocated only when none is held.
temp_dir_get(held, allocated) ==
    IF held = None THEN Some(allocated + 1) ELSE held

\* a cargo_metadata Package (its name, and the rest of its metadata as the
\* text of where it was read: the registry, the manifest, the tree at a tag),
\* a PublishedPackage
Pkg(name, meta) == [name |-> name, meta |-> meta]
Published(package, sha1) == [package |-> package, sha1 |-> sha1]

\* the closure given to chunk_by: the registry override, else the first
\* entry of the package's publish field, else None
RegistryOf(p, registry) ==
    IF registry # None THEN registry
    ELSE IF p.publish = None \/ Unwrap(p.publish) = <<>> THEN None
    ELSE Some(Head(Unwrap(p.publish)))

\* a slip in lines 92-101: one group for each package
ChunkEach(pkgs, registry) ==
    [i \in 1..Len(pkgs) |-> [registry |-> RegistryOf(pkgs[i], registry),
                             names |-> <<pkgs[i].name>>]]

\* Itertools::chunk_by: maximal runs of consecutive elements with equal key
RECURSIVE ChunkBy(_, _)
ChunkBy(pkgs, registry) ==
    IF pkgs = <<>> THEN <<>>
    ELSE LET k    == RegistryOf(Head(pkgs), registry)
             rest == ChunkBy(Tail(pkgs), registry)
         IN  IF rest # <<>> /\ Head(rest).registry = k
             THEN <<[registry |-> k, names |-> <<Head(pkgs).name>> \o Head(rest).names]>>
                      \o Tail(rest)
             ELSE <<[registry |-> k, names |-> <<Head(pkgs).name>>]>> \o rest

\* PackageDownloader::download when it succeeds: the metadata of the
\* requested packages, as unpacked under the destination directory
Downloaded(names) == [i \in 1..Len(names) |-> Pkg(names[i], <<"registry">>)]

\* publishable_packages_from_manifest when it succeeds
ManifestPackages(manifest) == [i \in 1..Len(manifest) |-> Pkg(manifest[i], <<"manifest">>)]

\* a slip in lines 82-85: a manifest package gets the commit of the checkout
FromManifestAtHead(pkgs) == [i \in 1..Len(pkgs) |-> Published(pkgs[i], Some(<<"HEAD">>))]

\* the closure of lines 82-85: a manifest package has no sha1
FromManifest(pkgs) == [i \in 1..Len(pkgs) |-> Published(pkgs[i], None)]

\* cargo_vcs_info::read_sha1_from_cargo_vcs_info on the content of the file
read_sha1_from_cargo_vcs_info(content) ==
    IF content = "garbage" THEN None ELSE Some(<<content>>)

\* ------------------------------------------------------------- repository
\* byte order of the characters that occur in tags
CharRank(c) ==
    CASE c = "-" -> 45
      [] c = "." -> 46
      [] c = "1" -> 49
      [] c = "2" -> 50
      [] c = "a" -> 97
      [] c = "b" -> 98
      [] c = "v" -> 118
      [] c = "x" -> 120

\* s sorts before t (as texts; the tags drawn have one-digit components)
RECURSIVE TagLess(_, _)
TagLess(s, t) ==
    IF t = <<>> THEN FALSE
    ELSE IF s = <<>> THEN TRUE
    ELSE IF Head(s) = Head(t) THEN TagLess(Tail(s), Tail(t))
    ELSE CharRank(Head(s)) < CharRank(Head(t))

\* Repo::get_tags_version_sorted(true): the tags, highest version first
RECURSIVE get_tags_version_sorted(_)
get_tags_version_sorted(tagset) ==
    IF tagset = {} THEN <<>>
    ELSE LET top == CHOOSE t \in tagset : \A u \in tagset \ {t} : TagLess(u, t)
         IN  <<top>> \o get_tags_version_sorted(tagset \ {top})

\* Repo::get_tag_commit: the commit a tag of the repository points to
get_tag_commit(tagset, tag) ==
    IF tag \in tagset THEN Some(<<"commit">> \o tag) ELSE None

\* ------------------------------------------------------------------ state
VARIABLES
    \* arguments of get_latest_packages
    registry_manifest,   \* None, or the package names the manifest declares
    local_packages,      \* registry_packages: sequence of [name, publish]
    registry,            \* None or the registry override
    git_only_packages,   \* sequence of package names
    git_tag_template,    \* the project's tag template
    repo_tags,           \* the repository's tags
    repo_checkout,       \* what the caller's working tree and index are at
    \* the PackagesCollection
    packages,            \* the BTreeMap, a sorted sequence of [key, value]
    temp_dir,            \* None or the directory held
    \* control
    pc, result,
    error,               \* "none", or the step whose error get_latest_packages returned
    \* locals of get_registry_packages and initialize_registry_package
    groups_done,         \* number of groups downloaded so far
    downloaded,          \* registry_packages: Vec<Package> of line 102
    initialized,         \* registry_packages: Vec<PublishedPackage> of line 214
    sha1,                \* sha1 of the package being initialized
    commits,             \* git commit attempts for the package being initialized
    commit_error,        \* "none", or how the last commit attempt failed
    \* locals of get_latest_tagged_packages
    tags, gidx, release_tag, metadata,
    \* the world
    fs_dirs,             \* temporary directories that exist
    allocated,           \* number of temporary directories ever created
    vcs_info,            \* name -> content of .cargo_vcs_info.json seen at first
    vcs_file,            \* names whose directory holds a .cargo_vcs_info.json
    worktrees,           \* linked worktrees of the repository, [dir, name, tag]
    downloads,           \* downloader invocations, [registry, names, directory]
    \* history
    inserted,            \* every PublishedPackage inserted, [published, by]
    temp_dir_calls       \* number of calls of temp_dir()

VARIABLES f_tags, f_package, f_template, f_out, f_applied

fvars == <<f_tags, f_package, f_template, f_out, f_applied>>

args == <<registry_manifest, local_packages, registry, git_only_packages,
          git_tag_template, repo_tags, repo_checkout>>
outcome == <<result, error>>
reglocals == <<groups_done, downloaded, initialized, sha1, commits, commit_error>>
gitlocals == <<tags, gidx, release_tag, metadata>>
dirstate == <<temp_dir, fs_dirs, allocated, temp_dir_calls>>
pkgfiles == <<vcs_info, vcs_file>>

vars == <<args, packages, pc, outcome, reglocals, gitlocals, dirstate, pkgfiles,
          worktrees, downloads, inserted, fvars>>

\* ----------------------------------------------------------------- inputs
RegistryUniverse == <<"c", "a", "b", "d">>
GitUniverse == <<"b", "a">>
ManifestUniverse == <<"b", "a">>
Registries == {"r1"}
Override == "r2"
Templates == {<<"v", "VER">>, <<"PKG", "-", "v", "VER">>}
TagUniverse ==
    { <<"v", "1", ".", "1", ".", "1">>,
      <<"v", "2", ".", "1", ".", "1">>,
      <<"a", "-", "v", "1", ".", "1", ".", "1">>,
      <<"a", "-", "v", "2", ".", "1", ".", "1">>,
      <<"x">> }

LocalPackageLists ==
    UNION { {[i \in 1..Len(names) |-> [name |-> names[i], publish |-> pub[i]]] :
                pub \in [1..Len(names) -> {None} \cup {Some(<<r>>) : r \in Registries}]} :
            names \in SubLists(RegistryUniverse, MaxRegistryPkgs) }

FilterIdle ==
    /\ f_tags = <<>>
    /\ f_package = "a"
    /\ f_template = <<>>
    /\ f_out = <<>>
    /\ f_applied = FALSE

\* the state after PackagesCollection::new()
Constructed ==
    /\ packages = <<>>
    /\ temp_dir = None
    /\ pc = "registry"
    /\ result = "none"
    /\ error = "none"
    /\ repo_checkout = "HEAD"
    /\ groups_done = 0
    /\ downloaded = <<>>
    /\ initialized = <<>>
    /\ sha1 = None
    /\ commits = 0
    /\ commit_error = "none"
    /\ tags = <<>>
    /\ gidx = 0
    /\ release_tag = None
    /\ metadata = None
    /\ fs_dirs = {}
    /\ allocated = 0
    /\ vcs_info = <<>>
    /\ vcs_file = {}
    /\ worktrees = <<>>
    /\ downloads = <<>>
    /\ inserted = <<>>
    /\ temp_dir_calls = 0

\* every choice of the registry arguments, with few git-only arguments
RegistryFocus ==
    /\ registry_manifest \in {None} \cup {Some(m) : m \in SubLists(ManifestUniverse, 2)}
    /\ local_packages \in LocalPackageLists
    /\ registry \in {None, Some(Override)}
    /\ git_only_packages \in {<<>>, <<"a">>}
    /\ git_tag_template = <<"v", "VER">>
    /\ repo_tags = {<<"v", "1", ".", "1", ".", "1">>}

\* every choice of the git-only arguments, with few registry arguments
GitFocus ==
    /\ registry_manifest \in {None, Some(ManifestUniverse)}
    /\ local_packages \in {<<>>, <<[name |-> "c", publish |-> None]>>}
    /\ registry = None
    /\ git_only_packages \in SubLists(GitUniverse, MaxGitPkgs)
    /\ git_tag_template \in Templates
    /\ repo_tags \in {T \in SUBSET TagUniverse : Cardinality(T) <= MaxTags}

Init ==
    /\ RegistryFocus \/ GitFocus
    /\ Constructed
    /\ FilterIdle

\* ----------------------------------------------------- leaving the function
\* `?` returns the error: the collection, a local of get_latest_packages, is
\* dropped, and dropping its TempDir removes the directory tree.
Fail ==
    /\ pc' = "failed"
    /\ result' = "err"

\* the error returned is the one of the step that failed
Failed(step) == Fail /\ error' = step

\* a slip: the directory is kept when the collection is dropped (into_path)
KeepTempDir == fs_dirs' = fs_dirs

\* Drop of TempDir: the directory tree is removed
DropTempDir == fs_dirs' = fs_dirs \ {temp_dir[i] : i \in 1..Len(temp_dir)}

\* ------------------------------------------------- get_registry_packages
Groups == ChunkBy(local_packages, registry)

VcsContents == {"NoFile", "abc123", "garbage"}

\* lines 104-109: the downloader of a group, for its names, the directory
\* and the registry
Invocation(group, directory) ==
    [registry |-> group.registry, names |-> group.names, directory |-> directory]

\* where the downloader puts a package: under the directory, by its name
downloaded_package_dir(directory, name) == <<directory, name>>

\* lines 79-86, publishable_packages_from_manifest fails
ManifestReadFails ==
    /\ pc = "registry" /\ registry_manifest # None
    /\ Failed("manifest") /\ DropTempDir
    /\ UNCHANGED <<args, packages, reglocals, gitlocals, temp_dir, allocated,
                   temp_dir_calls, pkgfiles, worktrees, downloads, inserted, fvars>>

\* a slip in lines 78-89: the directory is made before the match
ExtendFromManifestInTempDir ==
    /\ pc = "registry" /\ registry_manifest # None
    /\ LET pubs == FromManifest(ManifestPackages(Unwrap(registry_manifest)))
       IN  /\ packages' = extend(packages, pubs)
           /\ inserted' = inserted \o
                  [i \in 1..Len(pubs) |-> [published |-> pubs[i], by |-> "registry"]]
    /\ temp_dir' = temp_dir_get(temp_dir, allocated)
    /\ allocated' = IF temp_dir' = temp_dir THEN allocated ELSE allocated + 1
    /\ temp_dir_calls' = temp_dir_calls + 1
    /\ fs_dirs' = fs_dirs \cup {Unwrap(temp_dir')}
    /\ pc' = "git_tags"
    /\ UNCHANGED <<args, outcome, reglocals, gitlocals, pkgfiles,
                   worktrees, downloads, fvars>>

\* lines 79-86: the manifest's packages are inserted, each without sha1
ExtendFromManifest ==
    /\ pc = "registry" /\ registry_manifest # None
    /\ LET pubs == FromManifest(ManifestPackages(Unwrap(registry_manifest)))
       IN  /\ packages' = extend(packages, pubs)
           /\ inserted' = inserted \o
                  [i \in 1..Len(pubs) |-> [published |-> pubs[i], by |-> "registry"]]
    /\ pc' = "git_tags"
    /\ UNCHANGED <<args, outcome, reglocals, gitlocals, dirstate, pkgfiles,
                   worktrees, downloads, fvars>>

\* line 88, tempdir() fails
RegistryTempDirFails ==
    /\ pc = "registry" /\ registry_manifest = None
    /\ temp_dir = None
    /\ temp_dir_calls' = temp_dir_calls + 1
    /\ Failed("tempdir")
    /\ UNCHANGED <<args, packages, reglocals, gitlocals, temp_dir, fs_dirs, allocated,
                   pkgfiles, worktrees, downloads, inserted, fvars>>

\* lines 88-89, the path of the directory is not UTF-8
RegistryTempDirInvalidPath ==
    /\ pc = "registry" /\ registry_manifest = None
    /\ temp_dir' = temp_dir_get(temp_dir, allocated)
    /\ allocated' = IF temp_dir' = temp_dir THEN allocated ELSE allocated + 1
    /\ temp_dir_calls' = temp_dir_calls + 1
    /\ fs_dirs' = fs_dirs \ {Unwrap(temp_dir')}
    /\ Failed("tempdir path")
    /\ UNCHANGED <<args, packages, reglocals, gitlocals, pkgfiles, worktrees,
                   downloads, inserted, fvars>>

\* lines 88-101: the directory is there, the packages are grouped
RegistryTempDir ==
    /\ pc = "registry" /\ registry_manifest = None
    /\ temp_dir' = temp_dir_get(temp_dir, allocated)
    /\ allocated' = IF temp_dir' = temp_dir THEN allocated ELSE allocated + 1
    /\ temp_dir_calls' = temp_dir_calls + 1
    /\ fs_dirs' = fs_dirs \cup {Unwrap(temp_dir')}
    /\ pc' = IF Groups = <<>> THEN "extend" ELSE "download"
    /\ UNCHANGED <<args, packages, outcome, reglocals, gitlocals, pkgfiles, worktrees,
                   downloads, inserted, fvars>>

\* a slip in lines 103-114: a failed download is noted and the loop goes on
DownloadFailsSkipped ==
    /\ pc = "download"
    /\ downloads' = Append(downloads, Invocation(Groups[groups_done + 1], Unwrap(temp_dir)))
    /\ error' = "download"
    /\ groups_done' = groups_done + 1
    /\ pc' = IF groups_done' < Len(Groups) THEN "download"
             ELSE IF downloaded = <<>> THEN "extend" ELSE "init"
    /\ UNCHANGED <<args, packages, result, downloaded, initialized, sha1, commits,
                   commit_error, gitlocals, dirstate, pkgfiles, worktrees, inserted,
                   fvars>>

\* lines 103-114, download() fails
DownloadFails ==
    /\ pc = "download"
    /\ downloads' = Append(downloads, Invocation(Groups[groups_done + 1], Unwrap(temp_dir)))
    /\ Failed("download") /\ DropTempDir
    /\ UNCHANGED <<args, packages, reglocals, gitlocals, temp_dir, allocated,
                   temp_dir_calls, pkgfiles, worktrees, inserted, fvars>>

\* lines 103-114: one group is downloaded into the directory; each unpacked
\* package comes with or without a .cargo_vcs_info.json
DownloadGroup ==
    /\ pc = "download"
    /\ LET group == Groups[groups_done + 1]
       IN  /\ downloads' = Append(downloads, Invocation(group, Unwrap(temp_dir)))
           /\ downloaded' = downloaded \o Downloaded(group.names)
           /\ \E contents \in [1..Len(group.names) -> VcsContents] :
                 /\ vcs_info' = vcs_info \o contents
                 /\ vcs_file' = vcs_file \cup
                        {group.names[i] : i \in {j \in 1..Len(group.names) :
                                                    contents[j] # "NoFile"}}
    /\ groups_done' = groups_done + 1
    /\ pc' = IF groups_done' = Len(Groups) THEN "init" ELSE "download"
    /\ UNCHANGED <<args, packages, outcome, initialized, sha1, commits, commit_error,
                   gitlocals, dirstate, worktrees, inserted, fvars>>

\* ------------------------------------------- initialize_registry_package
\* the package of the current iteration of the loop of line 215
Current == downloaded[Len(initialized) + 1]

\* line 243, and the loop goes on or the function returns
PushInitialized ==
    /\ initialized' = Append(initialized, Published(Current, sha1))
    /\ pc' = IF Len(initialized') = Len(downloaded) THEN "extend" ELSE "init"

\* a slip in lines 220-227: the file is read but not removed
VcsFilesKept(files, name) == files

\* the files named .cargo_vcs_info.json left after lines 220-227 succeeded
VcsFilesAfter(files, name) == files \ {name}

\* lines 220-227: the sha1 is read from the file, if there, and the file removed
InitVcsInfo ==
    /\ pc = "init"
    /\ LET content == vcs_info[Len(initialized) + 1]
       IN  sha1' = IF Current.name \in vcs_file
                   THEN read_sha1_from_cargo_vcs_info(content)
                   ELSE None
    /\ vcs_file' = VcsFilesAfter(vcs_file, Current.name)
    /\ commits' = 0
    /\ commit_error' = "none"
    /\ pc' = "init_git"
    /\ UNCHANGED <<args, packages, outcome, groups_done, downloaded, initialized,
                   gitlocals, dirstate, vcs_info, worktrees, downloads, inserted, fvars>>

\* line 223, remove_file fails
RemoveVcsInfoFails ==
    /\ pc = "init"
    /\ Current.name \in vcs_file
    /\ Failed("remove vcs info") /\ DropTempDir
    /\ UNCHANGED <<args, packages, reglocals, gitlocals, temp_dir, allocated,
                   temp_dir_calls, pkgfiles, worktrees, downloads, inserted, fvars>>

\* line 230: the package directory already holds a git repository
GitRepoExists ==
    /\ pc = "init_git"
    /\ PushInitialized
    /\ UNCHANGED <<args, packages, outcome, groups_done, downloaded, sha1, commits,
                   commit_error,
                   gitlocals, dirstate, pkgfiles, worktrees, downloads, inserted, fvars>>

\* lines 231-232: git init and git add
GitInitAdd ==
    /\ pc = "init_git"
    /\ pc' = "commit"
    /\ UNCHANGED <<args, packages, outcome, reglocals, gitlocals, dirstate, pkgfiles,
                   worktrees, downloads, inserted, fvars>>

\* lines 231-232, git init or git add fails
GitInitAddFails ==
    /\ pc = "init_git"
    /\ Failed("git init") /\ DropTempDir
    /\ UNCHANGED <<args, packages, reglocals, gitlocals, temp_dir, allocated,
                   temp_dir_calls, pkgfiles, worktrees, downloads, inserted, fvars>>

\* line 233: the commit succeeds
CommitInit ==
    /\ pc = "commit"
    /\ commits' = commits + 1
    /\ commit_error' = "none"
    /\ PushInitialized
    /\ UNCHANGED <<args, packages, outcome, groups_done, downloaded, sha1,
                   gitlocals, dirstate, pkgfiles, worktrees, downloads, inserted, fvars>>

\* lines 233-234: the commit fails with "Author identity unknown"
CommitAuthorUnknown ==
    /\ pc = "commit"
    /\ commits' = commits + 1
    /\ commit_error' = "Author identity unknown"
    /\ pc' = "config"
    /\ UNCHANGED <<args, packages, outcome, groups_done, downloaded, initialized, sha1,
                   gitlocals, dirstate, pkgfiles, worktrees, downloads, inserted, fvars>>

\* a slip in lines 233-241: the identity is configured and the commit
\* repeated whatever the message of the failed commit
CommitOtherErrorRetried ==
    /\ pc = "commit"
    /\ commits' = commits + 1
    /\ commit_error' = "other"
    /\ pc' = "config"
    /\ UNCHANGED <<args, packages, outcome, groups_done, downloaded, initialized, sha1,
                   gitlocals, dirstate, pkgfiles, worktrees, downloads, inserted, fvars>>

\* lines 233-241: the commit fails with another message; the `if let Err`
\* has no else branch, the error is dropped and line 243 is reached
CommitOtherError ==
    /\ pc = "commit"
    /\ commits' = commits + 1
    /\ commit_error' = "other"
    /\ PushInitialized
    /\ UNCHANGED <<args, packages, outcome, groups_done, downloaded, sha1,
                   gitlocals, dirstate, pkgfiles, worktrees, downloads, inserted, fvars>>

\* lines 237-238: the throwaway identity is configured
ConfigIdentity ==
    /\ pc = "config"
    /\ pc' = "retry"
    /\ UNCHANGED <<args, packages, outcome, reglocals, gitlocals, dirstate, pkgfiles,
                   worktrees, downloads, inserted, fvars>>

\* lines 237-238, git config fails
ConfigIdentityFails ==
    /\ pc = "config"
    /\ Failed("git config") /\ DropTempDir
    /\ UNCHANGED <<args, packages, reglocals, gitlocals, temp_dir, allocated,
                   temp_dir_calls, pkgfiles, worktrees, downloads, inserted, fvars>>

\* line 239: the second commit succeeds
CommitRetry ==
    /\ pc = "retry"
    /\ commits' = commits + 1
    /\ commit_error' = "none"
    /\ PushInitialized
    /\ UNCHANGED <<args, packages, outcome, groups_done, downloaded, sha1,
                   gitlocals, dirstate, pkgfiles, worktrees, downloads, inserted, fvars>>

\* line 239, the second commit fails
CommitRetryFails ==
    /\ pc = "retry"
    /\ commits' = commits + 1
    /\ commit_error' = "other"
    /\ Failed("commit") /\ DropTempDir
    /\ UNCHANGED <<args, packages, groups_done, downloaded, initialized, sha1,
                   gitlocals, temp_dir, allocated, temp_dir_calls, pkgfiles, worktrees,
                   downloads, inserted, fvars>>

\* line 122: all initialized packages are inserted
ExtendRegistry ==
    /\ pc = "extend"
    /\ packages' = extend(packages, initialized)
    /\ inserted' = inserted \o
           [i \in 1..Len(initialized) |-> [published |-> initialized[i], by |-> "registry"]]
    \* the locals of get_registry_packages are gone
    /\ groups_done' = 0
    /\ downloaded' = <<>>
    /\ initialized' = <<>>
    /\ sha1' = None
    /\ commits' = 0
    /\ commit_error' = "none"
    /\ pc' = "git_tags"
    /\ UNCHANGED <<args, outcome, gitlocals, dirstate, pkgfiles,
                   worktrees, downloads, fvars>>

\* -------------------------------------------- get_latest_tagged_packages
\* the package of the current iteration of the loop of line 142
Package == git_only_packages[gidx]

\* a slip in lines 144-145: the last matching tag is taken, not the first
oldest_release_tag(sorted, package, template) ==
    LET matching == filter_release_tags(sorted, package, template)
    IN  IF matching = <<>> THEN None ELSE Some(matching[Len(matching)])

\* a slip in lines 144-148: without a matching tag the newest tag is taken
release_tag_or_newest(sorted, package, template) ==
    LET matching == filter_release_tags(sorted, package, template)
    IN  IF matching # <<>> THEN Some(Head(matching))
        ELSE IF sorted # <<>> THEN Some(Head(sorted)) ELSE None

\* lines 144-145: filter_release_tags(...).next()
latest_release_tag(sorted, package, template) ==
    LET matching == filter_release_tags(sorted, package, template)
    IN  IF matching = <<>> THEN None ELSE Some(Head(matching))

\* what cargo_utils::get_manifest_metadata can find in the tree checked out
\* at tag: the package lists of the manifest at that revision
MetadataAt(tag, name) ==
    { <<Pkg("c", tag)>>, <<Pkg("c", tag), Pkg(name, tag)>>, <<Pkg(name, tag)>> }

\* lines 171-174: the first package of the metadata with the wanted name
find_package(meta, name) ==
    IF \E i \in 1..Len(meta) : meta[i].name = name
    THEN Some(meta[Min({i \in 1..Len(meta) : meta[i].name = name})])
    ELSE None

\* a slip in lines 183-186: the tagged package is pushed without its commit
TaggedPackageNoCommit(found, tagset, tag) == Published(found, None)

\* lines 183-186: the PublishedPackage that is pushed
TaggedPackage(found, tagset, tag) == Published(found, get_tag_commit(tagset, tag))

\* a slip in get_latest_packages: the tags are listed and git-tag resolution
\* starts while registry resolution is still under way
ListTagsEarly ==
    /\ pc \in {"git_tags", "download", "init", "extend"}
    /\ tags' = get_tags_version_sorted(repo_tags)
    /\ gidx' = 1
    /\ pc' = "tagged"
    /\ UNCHANGED <<args, packages, outcome, reglocals, release_tag, metadata, dirstate,
                   pkgfiles, worktrees, downloads, inserted, fvars>>

\* line 140
ListTags ==
    /\ pc = "git_tags"
    /\ tags' = get_tags_version_sorted(repo_tags)
    /\ gidx' = 1
    /\ pc' = "tagged"
    /\ UNCHANGED <<args, packages, outcome, reglocals, release_tag, metadata, dirstate,
                   pkgfiles, worktrees, downloads, inserted, fvars>>

\* lines 144-148: no tag is a release tag of the package, continue
NoReleaseTag ==
    /\ pc = "tagged" /\ gidx <= Len(git_only_packages)
    /\ latest_release_tag(tags, Package, git_tag_template) = None
    /\ gidx' = gidx + 1
    /\ UNCHANGED <<args, packages, pc, outcome, reglocals, tags, release_tag, metadata,
                   dirstate, pkgfiles, worktrees, downloads, inserted, fvars>>

\* lines 144-152: a release tag is found and the directory is there
TaggedTempDir ==
    /\ pc = "tagged" /\ gidx <= Len(git_only_packages)
    /\ latest_release_tag(tags, Package, git_tag_template) # None
    /\ release_tag' = latest_release_tag(tags, Package, git_tag_template)
    /\ temp_dir' = temp_dir_get(temp_dir, allocated)
    /\ allocated' = IF temp_dir' = temp_dir THEN allocated ELSE allocated + 1
    /\ temp_dir_calls' = temp_dir_calls + 1
    /\ fs_dirs' = fs_dirs \cup {Unwrap(temp_dir')}
    /\ pc' = "worktree"
    /\ UNCHANGED <<args, packages, outcome, reglocals, tags, gidx, metadata, pkgfiles,
                   worktrees, downloads, inserted, fvars>>

\* line 150, tempdir() fails
TaggedTempDirFails ==
    /\ pc = "tagged" /\ gidx <= Len(git_only_packages)
    /\ latest_release_tag(tags, Package, git_tag_template) # None
    /\ temp_dir = None
    /\ temp_dir_calls' = temp_dir_calls + 1
    /\ Failed("tempdir")
    /\ UNCHANGED <<args, packages, reglocals, gitlocals, temp_dir, fs_dirs, allocated,
                   pkgfiles, worktrees, downloads, inserted, fvars>>

\* a slip in line 152: the name of the package is left out of the path
package_store_dir_unnamed(dir, name) == <<dir, "package">>

\* line 152: temp_dir.join(&package)
package_store_dir(dir, name) == <<dir, name>>

\* a slip in line 162: the tag is also checked out in the caller's working tree
AddWorktreeCheckout ==
    /\ pc = "worktree"
    /\ worktrees' = Append(worktrees,
                           [dir |-> Unwrap(temp_dir), name |-> Package,
                            path |-> package_store_dir(Unwrap(temp_dir), Package),
                            tag |-> Unwrap(release_tag)])
    /\ repo_checkout' = "tag"
    /\ pc' = "metadata"
    /\ UNCHANGED <<registry_manifest, local_packages, registry, git_only_packages,
                   git_tag_template, repo_tags, packages, outcome, reglocals,
                   gitlocals, dirstate, pkgfiles, downloads, inserted, fvars>>

\* line 162: the worktree is added at <temp dir>/<package name>
AddWorktree ==
    /\ pc = "worktree"
    /\ worktrees' = Append(worktrees,
                           [dir |-> Unwrap(temp_dir), name |-> Package,
                            path |-> package_store_dir(Unwrap(temp_dir), Package),
                            tag |-> Unwrap(release_tag)])
    /\ pc' = "metadata"
    /\ UNCHANGED <<args, packages, outcome, reglocals, gitlocals, dirstate, pkgfiles,
                   downloads, inserted, fvars>>

\* line 162, git worktree add fails
AddWorktreeFails ==
    /\ pc = "worktree"
    /\ Failed("worktree") /\ DropTempDir
    /\ UNCHANGED <<args, packages, reglocals, gitlocals, temp_dir, allocated,
                   temp_dir_calls, pkgfiles, worktrees, downloads, inserted, fvars>>

\* lines 164-169: the manifest of the worktree is read
GetManifestMetadata ==
    /\ pc = "metadata"
    /\ metadata' \in {Some(m) : m \in MetadataAt(Unwrap(release_tag), Package)}
    /\ pc' = "find"
    /\ UNCHANGED <<args, packages, outcome, reglocals, tags, gidx, release_tag, dirstate,
                   pkgfiles, worktrees, downloads, inserted, fvars>>

\* lines 164-169, the manifest path is not UTF-8 or the manifest cannot be read
GetManifestMetadataFails ==
    /\ pc = "metadata"
    /\ Failed("metadata") /\ DropTempDir
    /\ UNCHANGED <<args, packages, reglocals, gitlocals, temp_dir, allocated,
                   temp_dir_calls, pkgfiles, worktrees, downloads, inserted, fvars>>

\* lines 171-186: the package is found in the metadata and pushed
PushTagged ==
    /\ pc = "find"
    /\ find_package(Unwrap(metadata), Package) # None
    /\ LET published == TaggedPackage(Unwrap(find_package(Unwrap(metadata), Package)),
                                      repo_tags, Unwrap(release_tag))
       IN  /\ packages' = push(packages, published)
           /\ inserted' = Append(inserted, [published |-> published, by |-> "git"])
    /\ gidx' = gidx + 1
    /\ release_tag' = None
    /\ metadata' = None
    /\ pc' = "tagged"
    /\ UNCHANGED <<args, outcome, reglocals, tags, dirstate, pkgfiles, worktrees,
                   downloads, fvars>>

\* a slip in lines 171-181: a package missing from the metadata is noted
\* and skipped
PackageNotInManifestSkipped ==
    /\ pc = "find"
    /\ find_package(Unwrap(metadata), Package) = None
    /\ error' = "package not found"
    /\ gidx' = gidx + 1
    /\ release_tag' = None
    /\ metadata' = None
    /\ pc' = "tagged"
    /\ UNCHANGED <<args, packages, result, reglocals, tags, dirstate, pkgfiles,
                   worktrees, downloads, inserted, fvars>>

\* lines 171-181: the package is not in the metadata
PackageNotInManifest ==
    /\ pc = "find"
    /\ find_package(Unwrap(metadata), Package) = None
    /\ Failed("package not found") /\ DropTempDir
    /\ UNCHANGED <<args, packages, reglocals, gitlocals, temp_dir, allocated,
                   temp_dir_calls, pkgfiles, worktrees, downloads, inserted, fvars>>

\* lines 189 and 210: the collection is returned to the caller
ReturnOk ==
    /\ pc = "tagged" /\ gidx > Len(git_only_packages)
    /\ pc' = "returned"
    /\ result' = "ok"
    /\ UNCHANGED error
    /\ UNCHANGED <<args, packages, reglocals, gitlocals, dirstate, pkgfiles, worktrees,
                   downloads, inserted, fvars>>

\* the caller drops the collection: TempDir's Drop removes the directory tree
DropCollection ==
    /\ pc = "returned"
    /\ pc' = "dropped"
    /\ DropTempDir
    /\ UNCHANGED <<args, packages, outcome, reglocals, gitlocals, temp_dir, allocated,
                   temp_dir_calls, pkgfiles, worktrees, downloads, inserted, fvars>>

Next ==
    \/ ManifestReadFails
    \/ ExtendFromManifest
    \/ RegistryTempDirFails
    \/ RegistryTempDirInvalidPath
    \/ RegistryTempDir
    \/ DownloadFails
    \/ DownloadGroup
    \/ InitVcsInfo
    \/ RemoveVcsInfoFails
    \/ GitRepoExists
    \/ GitInitAdd
    \/ GitInitAddFails
    \/ CommitInit
    \/ CommitAuthorUnknown
    \/ CommitOtherError
    \/ ConfigIdentity
    \/ ConfigIdentityFails
    \/ CommitRetry
    \/ CommitRetryFails
    \/ ExtendRegistry
    \/ ListTags
    \/ NoReleaseTag
    \/ TaggedTempDir
    \/ TaggedTempDirFails
    \/ AddWorktree
    \/ AddWorktreeFails
    \/ GetManifestMetadata
    \/ GetManifestMetadataFails
    \/ PushTagged
    \/ PackageNotInManifest
    \/ ReturnOk
    \/ DropCollection

Spec == Init /\ [][Next]_vars

\* ------------------------------------- specification of filter_release_tags
SeqsUpTo(S, n) == UNION {[1..k -> S] : k \in 0..n}

FilterChars == {"a", "1", "."}
FilterNames == {"a", "a1"}
FilterItems == {"1", "PKG", "VER"}

\* get_latest_packages is not running: empty arguments
FilterArgs ==
    /\ registry_manifest = None
    /\ local_packages = <<>>
    /\ registry = None
    /\ git_only_packages = <<>>
    /\ git_tag_template = <<>>
    /\ repo_tags = {}

FilterInit ==
    /\ f_tags \in {<<t>> : t \in SeqsUpTo(FilterChars, MaxTagLen)}
    /\ f_package \in FilterNames
    /\ f_template \in SeqsUpTo(FilterItems, MaxTemplateLen)
    /\ f_out = <<>>
    /\ f_applied = FALSE
    /\ FilterArgs
    /\ Constructed

ApplyFilter ==
    /\ ~f_applied
    /\ f_applied' = TRUE
    /\ f_out' = filter_release_tags(f_tags, f_package, f_template)
    /\ UNCHANGED <<f_tags, f_package, f_template>>
    /\ UNCHANGED <<args, packages, pc, outcome, reglocals, gitlocals, dirstate, pkgfiles,
                   worktrees, downloads, inserted>>

FilterNext == ApplyFilter

SpecFilter == FilterInit /\ [][FilterNext]_vars

\* C1: filter_release_tags yields t for p iff t contains some substring v of
\* the form digits.digits.digits with template(p, v) equal to t.
SomeVersionRenders(t, p, template) ==
    \E i \in 1..Len(t) : \E j \in i..Len(t) :
        /\ IsSemver(SubSeq(t, i, j))
        /\ git_tag(template, p, SubSeq(t, i, j)) = t

InSeq(x, s) == \E i \in 1..Len(s) : s[i] = x

C1_YieldsIffSomeSubstringRenders ==
    f_applied =>
        \A i \in 1..Len(f_tags) :
            InSeq(f_tags[i], f_out) <=>
                SomeVersionRenders(f_tags[i], f_package, f_template)

\* ------------------------------------------------------ claims on Spec
AllNames == {"a", "a1", "b", "c", "d"}

\* the positions of inserted that git-tag resolution wrote
GitInserted == {k \in 1..Len(inserted) : inserted[k].by = "git"}
RegistryInserted == {k \in 1..Len(inserted) : inserted[k].by = "registry"}

\* tag is a release tag of package under the project's template
IsReleaseTag(tag, package) ==
    filter_release_tags(<<tag>>, package, git_tag_template) = <<tag>>

ReleaseTagsOf(package) == {t \in repo_tags : IsReleaseTag(t, package)}

WorktreesOf(package) == {i \in 1..Len(worktrees) : worktrees[i].name = package}

\* C2: of several release tags of a git-only package only the most recent
\* one (the first of the version-descending list) gets a worktree and is the
\* one the recorded Published Package comes from.
C2_OnlyLatestTagMaterialized ==
    /\ \A i \in 1..Len(worktrees) :
          LET w == worktrees[i]
          IN  /\ w.tag \in ReleaseTagsOf(w.name)
              /\ \A u \in ReleaseTagsOf(w.name) : u = w.tag \/ TagLess(u, w.tag)
              /\ \E n \in 1..Len(tags) :
                     /\ tags[n] = w.tag
                     /\ \A j \in 1..(n - 1) : ~IsReleaseTag(tags[j], w.name)
              /\ WorktreesOf(w.name) = {i}
    /\ \A k \in GitInserted :
          LET pub == inserted[k].published
          IN  \E i \in WorktreesOf(pub.package.name) :
                 /\ pub.package.meta = worktrees[i].tag
                 /\ \A u \in ReleaseTagsOf(pub.package.name) :
                        u = pub.package.meta \/ TagLess(u, pub.package.meta)

C2_Witness ==
    \E k \in GitInserted :
        /\ Cardinality(ReleaseTagsOf(inserted[k].published.package.name)) >= 2
        /\ result = "ok"

VcsInfoHonoured(published, content) ==
    /\ content = "NoFile" => published.sha1 = None
    /\ content \notin {"NoFile", "garbage"} => published.sha1 = Some(<<content>>)
    /\ published.package.name \notin vcs_file

C4_VcsInfoReadAndRemoved ==
    /\ \A i \in 1..Len(initialized) : VcsInfoHonoured(initialized[i], vcs_info[i])
    /\ (registry_manifest = None /\ RegistryInserted # {}) =>
          /\ RegistryInserted = 1..Len(vcs_info)
          /\ \A k \in RegistryInserted :
                VcsInfoHonoured(inserted[k].published, vcs_info[k])

C4_Witness ==
    /\ registry_manifest = None
    /\ \E j, k \in RegistryInserted :
          /\ vcs_info[j] = "abc123" /\ inserted[j].published.sha1 = Some(<<"abc123">>)
          /\ vcs_info[k] = "NoFile" /\ inserted[k].published.sha1 = None

\* C5: the table holds at most one entry per package name, and looking a
\* name up returns exactly the Published Package inserted last under it.
LastInserted(name) ==
    LET ks == {k \in 1..Len(inserted) : inserted[k].published.package.name = name}
    IN  IF ks = {} THEN None ELSE Some(inserted[Max(ks)].published)

C5_LookupReturnsLastInserted ==
    /\ \A i, j \in 1..Len(packages) : packages[i].key = packages[j].key => i = j
    /\ \A name \in AllNames :
          /\ get_published_package(packages, name) = LastInserted(name)
          /\ get_package(packages, name) =
                 IF LastInserted(name) = None THEN None
                 ELSE Some(Unwrap(LastInserted(name)).package)

C5_Witness ==
    \E j \in RegistryInserted, k \in GitInserted :
        /\ inserted[j].published.package.name = inserted[k].published.package.name
        /\ get_published_package(packages, inserted[k].published.package.name)
               = Some(inserted[k].published)
        /\ inserted[j].published # inserted[k].published
        /\ Len(packages) >= 2

\* C6: at most one scratch directory is ever allocated for a collection, and
\* once the collection holds a directory, it holds the same one ever after.
C6_TempDirCreatedOnce ==
    /\ [](allocated <= 1)
    /\ [][temp_dir # None => temp_dir' = temp_dir]_vars

C6_Witness ==
    /\ temp_dir_calls >= 2
    /\ allocated = 1
    /\ registry_manifest = None
    /\ worktrees # <<>>

\* C7: when the collection's lifetime has ended, by a failure at any step or
\* by the caller's drop of the returned collection, no scratch directory is
\* left.
C7_TempDirRemovedAtEnd ==
    /\ pc \in {"failed", "dropped"} => fs_dirs = {}
    /\ result = "err" => pc = "failed"
    /\ pc \notin {"failed", "dropped"} =>
           fs_dirs = {temp_dir[i] : i \in 1..Len(temp_dir)}

C7_Witness ==
    /\ pc = "dropped"
    /\ allocated = 1
    /\ worktrees # <<>>
    /\ downloads # <<>>

\* C8: every entry of the table is stored under the name of the package it
\* holds.
C8_KeyIsPackageName ==
    \A i \in 1..Len(packages) : packages[i].key = packages[i].value.package.name

C8_Witness ==
    /\ Len(packages) >= 3
    /\ GitInserted # {}

\* C9: registry resolution is complete before git-tag resolution starts (no
\* tag listed, no worktree added before every download, vcs-info removal and
\* git init/commit is over and the registry entries are in the table), and
\* git-only packages are processed one at a time in input order.
NamesOf(S) == {inserted[k].published.package.name : k \in S}

RegistryFinished ==
    /\ pc \notin {"registry", "download", "init", "init_git", "commit", "config",
                  "retry", "extend"}
    /\ IF registry_manifest = None
       THEN /\ Len(downloads) = Len(Groups)
            /\ vcs_file = {}
            /\ NamesOf(RegistryInserted) =
                   {local_packages[i].name : i \in 1..Len(local_packages)}
       ELSE NamesOf(RegistryInserted) =
                {Unwrap(registry_manifest)[i] : i \in 1..Len(Unwrap(registry_manifest))}

\* the first n git-only packages that have a release tag, in input order
MatchedUpTo(n) ==
    Pick(git_only_packages,
         {i \in 1..Len(git_only_packages) : i <= n /\ ReleaseTagsOf(git_only_packages[i]) # {}},
         1)

WorktreeNames == [i \in 1..Len(worktrees) |-> worktrees[i].name]

GitInsertedNames ==
    LET first == Len(inserted) - Cardinality(GitInserted)
    IN  [i \in 1..Cardinality(GitInserted) |-> inserted[first + i].published.package.name]

GitTagResolutionStarted == gidx > 0 \/ tags # <<>> \/ worktrees # <<>> \/ GitInserted # {}

C9_RegistryBeforeTagsInOrder ==
    /\ [](GitTagResolutionStarted => RegistryFinished)
    /\ [](GitTagResolutionStarted =>
            /\ WorktreeNames \in {MatchedUpTo(gidx - 1), MatchedUpTo(gidx)}
            /\ Len(WorktreeNames) - Len(GitInsertedNames) \in {0, 1}
            /\ GitInsertedNames = SubSeq(WorktreeNames, 1, Len(GitInsertedNames))
            /\ \A k \in GitInserted : \A j \in RegistryInserted : j < k)
    /\ [][GitTagResolutionStarted =>
            UNCHANGED <<downloads, pkgfiles, reglocals>>
            /\ RegistryInserted' = RegistryInserted]_vars

C9_Witness ==
    /\ result = "ok"
    /\ Len(worktrees) = 2
    /\ Len(downloads) >= 1
    /\ worktrees[1].name = "b" /\ worktrees[2].name = "a"

\* C10: every Published Package that git-tag resolution inserts has a sha1,
\* the commit that the matched tag points to.
C10_TaggedPackageHasTagCommit ==
    \A k \in GitInserted :
        LET pub == inserted[k].published
        IN  /\ pub.sha1 # None
            /\ \E i \in WorktreesOf(pub.package.name) :
                   pub.sha1 = Some(<<"commit">> \o worktrees[i].tag)

C10_Witness ==
    \E k \in GitInserted :
        get_published_package(packages, inserted[k].published.package.name)
            = Some(inserted[k].published)

\* ---------------------------------------------------------------- C11
\* C11: when the initial commit of a downloaded package fails with a message
\* other than the missing author identity, registry resolution fails: the
\* error is returned and the package is not put among the initialized ones.
C11_OtherCommitFailureIsFatal ==
    commit_error = "other" =>
        /\ pc = "failed"
        /\ result = "err"
        /\ error = "commit"

\* ---------------------------------------------------------------- C12
\* the target registry of the i-th local package
TargetRegistry(i) == RegistryOf(local_packages[i], registry)

\* how many names the first k downloader invocations asked for
RECURSIVE NamesBefore(_)
NamesBefore(k) == IF k = 0 THEN 0 ELSE NamesBefore(k - 1) + Len(downloads[k].names)

\* every group of get_registry_packages has been handed to the downloader
DownloadsComplete ==
    /\ registry_manifest = None
    /\ pc \notin {"registry", "download", "failed"}

RegistryInsertedSeq ==
    [i \in 1..Cardinality(RegistryInserted) |-> inserted[i].published]

\* C13: with a manifest path, registry resolution downloads nothing, removes
\* no .cargo_vcs_info.json, runs no git init or commit, does not look at the
\* local registry packages, and inserts every package of the manifest
\* without sha1.
C13_ManifestOnly ==
    registry_manifest # None =>
        /\ downloads = <<>> /\ downloaded = <<>>
        /\ vcs_info = <<>> /\ vcs_file = {}
        /\ initialized = <<>> /\ commits = 0 /\ commit_error = "none"
        /\ pc \notin {"download", "init", "init_git", "commit", "config", "retry",
                      "extend"}
        /\ pc = "registry" \/ error = "manifest" => inserted = <<>>
        /\ pc # "registry" /\ error # "manifest" =>
               LET manifest == Unwrap(registry_manifest)
               IN  /\ Len(RegistryInsertedSeq) = Len(manifest)
                   /\ \A i \in 1..Len(manifest) :
                          /\ RegistryInsertedSeq[i].package.name = manifest[i]
                          /\ RegistryInsertedSeq[i].package.meta = <<"manifest">>
                          /\ RegistryInsertedSeq[i].sha1 = None
                          /\ inserted[i].by = "registry"

\* a manifest and local packages that the manifest does not name
C13_Witness ==
    /\ registry_manifest # None
    /\ Len(Unwrap(registry_manifest)) = 2
    /\ \E i \in 1..Len(local_packages) :
           \A j \in 1..Len(Unwrap(registry_manifest)) :
               local_packages[i].name # Unwrap(registry_manifest)[j]
    /\ result = "ok"
    /\ get_published_package(packages, "b") # None

\* ---------------------------------------------------------------- C14
\* the downloaded packages that still have their .cargo_vcs_info.json
UntouchedVcsFiles ==
    {downloaded[i].name : i \in {j \in 1..Len(downloaded) : vcs_info[j] # "NoFile"}}

\* C14: when the download of a registry group fails the resolution is over:
\* get_latest_packages returns the error, the failed group is the last one
\* handed to the downloader, no downloaded package was post-processed (no
\* .cargo_vcs_info.json removed, no git init or commit), git-tag resolution
\* did not run (no tags listed, no worktree), and nothing happens afterwards.
C14_DownloadFailureAborts ==
    /\ [](error = "download" =>
            /\ pc = "failed" /\ result = "err"
            /\ Len(downloads) = groups_done + 1
            /\ downloads[Len(downloads)] =
                   Invocation(Groups[groups_done + 1], Unwrap(temp_dir))
            /\ initialized = <<>> /\ commits = 0 /\ sha1 = None
            /\ vcs_file = UntouchedVcsFiles
            /\ tags = <<>> /\ gidx = 0 /\ worktrees = <<>>
            /\ packages = <<>> /\ inserted = <<>>)
    /\ [][error # "download"]_vars

\* the second of three groups fails, after a package with a
\* .cargo_vcs_info.json was downloaded, with a git-only package waiting
C14_Witness ==
    /\ error = "download"
    /\ groups_done = 1 /\ Len(Groups) = 3
    /\ vcs_file # {}
    /\ git_only_packages # <<>>
    /\ ReleaseTagsOf(git_only_packages[1]) # {}

\* ---------------------------------------------------------------- C15
GitStepErrors == {"worktree", "metadata", "package not found"}

\* C15: in git-tag resolution a failing worktree addition, a failing read of
\* the manifest of the worktree, and a manifest that does not list the
\* package each end the resolution at once: get_latest_packages returns the
\* error, the package is not inserted, no later git-only package gets a
\* worktree or an entry, and nothing happens afterwards.
C15_GitStepFailureAborts ==
    /\ [](error \in GitStepErrors =>
            /\ pc = "failed" /\ result = "err"
            /\ gidx \in 1..Len(git_only_packages)
            /\ release_tag # None
            /\ \A k \in GitInserted :
                   \E i \in 1..(gidx - 1) :
                       inserted[k].published.package.name = git_only_packages[i]
            /\ \A w \in 1..Len(worktrees) :
                   \E i \in 1..gidx : worktrees[w].name = git_only_packages[i]
            /\ Cardinality(GitInserted) = Len(MatchedUpTo(gidx - 1))
            /\ \/ error = "worktree" /\ WorktreeNames = MatchedUpTo(gidx - 1)
               \/ error # "worktree" /\ WorktreeNames = MatchedUpTo(gidx))
    /\ [][error \notin GitStepErrors]_vars

\* the first of two git-only packages fails and the second has a release tag
C15_Witness ==
    /\ error = "package not found"
    /\ gidx = 1 /\ Len(git_only_packages) = 2
    /\ ReleaseTagsOf(git_only_packages[2]) # {}
    /\ Len(worktrees) = 1

\* ---------------------------------------------------------------- C16
\* C16: nothing is repeated but the initial commit: the k-th downloader
\* invocation is for the k-th group, a git-only package gets at most one
\* worktree, a downloaded package sees at most two commit attempts, the
\* second one only after the first failed with "Author identity unknown" and
\* the identity was configured, and a failing second attempt is returned as
\* the error.
C16_OnlyCommitRetried ==
    /\ [](/\ Len(downloads) <= Len(Groups)
          /\ \A k \in 1..Len(downloads) :
                 downloads[k] = Invocation(Groups[k], Unwrap(temp_dir))
          /\ Len(worktrees) <= gidx
          /\ \A i, j \in 1..Len(worktrees) :
                 worktrees[i].name = worktrees[j].name => i = j
          /\ commits <= 2
          /\ pc \in {"config", "retry"} =>
                 commits = 1 /\ commit_error = "Author identity unknown")
    /\ [][/\ Len(downloads') <= Len(downloads) + 1
          /\ Len(worktrees') <= Len(worktrees) + 1
          /\ commits' <= commits + 1
          /\ pc' = "config" /\ pc # "config" =>
                 pc = "commit" /\ commits = 0
          /\ pc' = "retry" /\ pc # "retry" => pc = "config"
          /\ commits' = 2 /\ commits # 2 => pc = "retry"
          /\ commits' = 2 /\ commits # 2 /\ commit_error' # "none" =>
                 pc' = "failed" /\ result' = "err" /\ error' = "commit"]_vars

\* the second commit of the second downloaded package fails
C16_Witness ==
    /\ commits = 2 /\ error = "commit"
    /\ Len(initialized) = 1
    /\ Len(downloads) = 2

\* ---------------------------------------------------------------- C17
\* the subdirectories that the downloader invocations so far put packages in
DownloadPaths ==
    UNION {{downloaded_package_dir(downloads[k].directory, downloads[k].names[j]) :
                j \in 1..Len(downloads[k].names)} : k \in 1..Len(downloads)}

WorktreePaths == {worktrees[i].path : i \in 1..Len(worktrees)}

\* no subdirectory is the target of two worktree additions, or of a worktree
\* addition and a download, the addition about to be made included
SubdirectoriesUsedOnce ==
    /\ \A i, j \in 1..Len(worktrees) : worktrees[i].path = worktrees[j].path => i = j
    /\ WorktreePaths \cap DownloadPaths = {}
    /\ pc = "worktree" =>
           package_store_dir(Unwrap(temp_dir), Package) \notin WorktreePaths \cup DownloadPaths

\* a registry package that is downloaded has the name of a git-only package
SharedName ==
    /\ registry_manifest = None
    /\ \E i \in 1..Len(local_packages), j \in 1..Len(git_only_packages) :
           local_packages[i].name = git_only_packages[j]

C18_OnlyWorktreesAdded ==
    /\ [](/\ \A i \in 1..Len(worktrees) :
                 /\ temp_dir # None
                 /\ worktrees[i].dir = Unwrap(temp_dir)
                 /\ worktrees[i].path = <<Unwrap(temp_dir), worktrees[i].name>>
                 /\ worktrees[i].tag \in ReleaseTagsOf(worktrees[i].name)
          /\ result = "ok" => WorktreeNames = MatchedUpTo(Len(git_only_packages)))
    /\ [][/\ repo_checkout' = repo_checkout
          /\ repo_tags' = repo_tags
          /\ worktrees' # worktrees =>
                 /\ pc = "worktree" /\ pc' = "metadata"
                 /\ Len(worktrees') = Len(worktrees) + 1
                 /\ SubSeq(worktrees', 1, Len(worktrees)) = worktrees
                 /\ worktrees'[Len(worktrees')].name = Package]_vars

\* of two git-only packages one has a release tag and gets a worktree, and
\* the worktree is still registered after the collection is dropped
C18_Witness ==
    /\ pc = "dropped"
    /\ Len(git_only_packages) = 2
    /\ Len(worktrees) = 1
    /\ worktrees[1].dir \notin fs_dirs

\* ---------------------------------------------------------------- C19
RegistrySteps ==
    {"registry", "download", "init", "init_git", "commit", "config", "retry", "extend"}

\* C19: registry resolution by download changes the table in one step only,
\* after every download and every initialization succeeded (the commit of
\* the package initialized last included), and then puts in all downloaded
\* packages; until then, and when it fails, the table is as it was. Git-tag
\* resolution puts in one package at a time, so that the table has the
\* earlier packages when a later one fails.
C19_RegistryAllOrNothing ==
    /\ [](registry_manifest = None /\ (pc \in RegistrySteps \/ (pc = "failed" /\ gidx = 0))
            => packages = <<>> /\ inserted = <<>>)
    /\ [][/\ registry_manifest = None /\ RegistryInserted' # RegistryInserted =>
                 /\ pc = "extend" /\ pc' = "git_tags"
                 /\ Len(downloads) = Len(Groups)
                 /\ Len(initialized) = Len(local_packages)
                 /\ commit_error = "none"
                 /\ inserted = <<>>
                 /\ Len(inserted') = Len(local_packages)
                 /\ \A i \in 1..Len(local_packages) :
                        /\ inserted'[i].published = initialized[i]
                        /\ inserted'[i].published.package.name = local_packages[i].name
                        /\ get_published_package(packages', local_packages[i].name)
                               = Some(initialized[i])
          /\ GitInserted' # GitInserted =>
                 /\ pc = "find"
                 /\ inserted' = Append(inserted, inserted'[Len(inserted')])
                 /\ inserted'[Len(inserted')].by = "git"]_vars

\* ---------------------------------------------------------------- C20
\* some git-only package has a release tag
SomeTagMatches ==
    \E i \in 1..Len(git_only_packages) : ReleaseTagsOf(git_only_packages[i]) # {}

TempDirCreated == temp_dir # None /\ allocated >= 1

\* C20: when get_latest_packages returns a collection, the scratch directory
\* was created exactly if no manifest path was given or a git-only package
\* had a release tag; without a manifest path it is there before any
\* download, also for an empty list of registry packages, and with a
\* manifest path and no release tag it is never created.
C20_TempDirCreatedIffNeeded ==
    /\ result = "ok" => (TempDirCreated <=> registry_manifest = None \/ SomeTagMatches)
    /\ registry_manifest = None /\ pc \notin {"registry", "failed"} => TempDirCreated
    /\ downloads # <<>> => TempDirCreated
    /\ registry_manifest # None /\ ~SomeTagMatches =>
           ~TempDirCreated /\ temp_dir_calls = 0 /\ fs_dirs = {}

\* no manifest path, no registry package, no release tag: the directory is made
C20_Witness ==
    /\ result = "ok"
    /\ registry_manifest = None
    /\ local_packages = <<>>
    /\ git_only_packages # <<>>
    /\ ~SomeTagMatches
    /\ TempDirCreated

====
